---- MODULE Spec2Model ----
(***************************************************************************)
(* Model of the tg-message-watcher relay: the live update handlers, the    *)
(* history backfill loop, the webhook sender and the run loop of           *)
(* internal/app/app.go, together with the earlier revision of the same     *)
(* package kept in unnamed/part_000 (no backfill, lower-cased text,        *)
(* "message_id" field).  The variable build says which revision runs.      *)
(***************************************************************************)
EXTENDS Integers, Sequences, FiniteSets, TLC

VARIABLES
    build,        \* which revision of package app is running
    allMessages,  \* the -all-messages flag
    phase,        \* position of Run: AuthPending, SelfLookup, Running, ...
    cancelled,    \* ctx of main is cancelled (os.Interrupt)
    runErr,       \* what Run returned ("none" while it has not returned)
    fault,        \* the panic that ended the process, "none" otherwise
    history,      \* the watched channel's messages, oldest first
    livePc,       \* position of the live handler: idle, handling, posting, returned
    cur,          \* the update the live handler is invoked with (afterAbort:
                  \* it arrived after a page fetch had ended the backfill)
    curRes,       \* what getChannel answered for cur
    curSent,      \* sendMessage was called for cur
    liveFailed,   \* some live sendMessage call has returned an error
    liveRet,      \* what the handler returned for cur
    liveCount,    \* number of live updates delivered so far
    liveReq,      \* the live handler's sendMessage call in progress
    bfPc,         \* position of fetchAndProcessMessages
    offsetID,     \* its pagination cursor
    page,         \* history.Messages of the page being processed
    idx,          \* index of the range loop in page
    fetchLog,     \* the MessagesGetHistory calls issued so far, each with the
                  \* length of the chat's history when it was issued
    bfEmitted,    \* the sendMessage calls of the backfill, in order
    bfErr,        \* the error fetchAndProcessMessages returned
    bfFailed,     \* some backfill sendMessage call returned an error
    n0,           \* length of history when the first page was fetched
    bfReq         \* the backfill's sendMessage call in progress

orchVars == <<build, allMessages, phase, cancelled, runErr, fault>>
liveVars == <<livePc, cur, curRes, curSent, liveFailed, liveRet, liveCount, liveReq>>
bfVars   == <<bfPc, offsetID, page, idx, fetchLog, bfEmitted, bfErr, bfFailed, n0, bfReq>>
vars     == <<orchVars, liveVars, bfVars, history>>

(***************************************************************************)
(* Bounds of the model.                                                    *)
(***************************************************************************)
\* Limit of one history page; the code asks for 100, scaled down here.
PageSize == 2
\* Longest initial history.
MaxHist == 3
\* Most non-message entries in the initial history.
MaxService == 1
\* Longest initial history of a run without backfill, which never reads it.
MaxHistLive == 1
\* Number of live updates delivered in one run without backfill.
MaxLive == 2
\* Number of live updates delivered in one run with backfill.
MaxLiveBackfill == 1
\* Requests one http.Post may issue while following redirects (net/http: 10).
MaxPosts == 2
\* Message identifiers of the history are IdBase+1, IdBase+2, ...
IdBase == 8

(***************************************************************************)
(* Configuration and value sets.                                           *)
(***************************************************************************)
ChatForWatch == 42
Chats == {42, 43}
Builds == {"app.go", "part_000"}
Payloads == {"message", "service", "empty"}
UpdateKinds == {"new", "edit"}
EntryKinds == {"message", "service"}
Texts == {"Hello"}
\* Answers of channels.getChannels: a channel, an RPC error, an empty chat
\* list, a chat that is not a *tg.Channel.
ResolveAnswers == {"ok", "apiErr", "noChats", "notChannel"}
\* Answers of messages.getHistory.
FetchAnswers == {"ok", "apiErr", "badType"}
\* What the endpoint does with one request: a status, a redirect that keeps
\* the method (307/308), or a transport error.
Responses == {"200", "500", "307", "neterr"}

NoEvent == [kind |-> "none"]
NoReq == [state |-> "none"]

Min(a, b) == IF a < b THEN a ELSE b

(***************************************************************************)
(* strconv.Itoa and its inverse, on strings as sequences of characters.    *)
(***************************************************************************)
Digit(d) ==
    CASE d = 0 -> "0" [] d = 1 -> "1" [] d = 2 -> "2" [] d = 3 -> "3"
      [] d = 4 -> "4" [] d = 5 -> "5" [] d = 6 -> "6" [] d = 7 -> "7"
      [] d = 8 -> "8" [] d = 9 -> "9"

RECURSIVE ItoaNat(_)
ItoaNat(n) == IF n < 10 THEN <<Digit(n)>> ELSE ItoaNat(n \div 10) \o <<Digit(n % 10)>>

Itoa(n) == IF n < 0 THEN <<"-">> \o ItoaNat(-n) ELSE ItoaNat(n)

DigitVal(c) ==
    CASE c = "0" -> 0 [] c = "1" -> 1 [] c = "2" -> 2 [] c = "3" -> 3
      [] c = "4" -> 4 [] c = "5" -> 5 [] c = "6" -> 6 [] c = "7" -> 7
      [] c = "8" -> 8 [] c = "9" -> 9

RECURSIVE AtoiNat(_)
AtoiNat(s) == IF s = <<>> THEN 0 ELSE 10 * AtoiNat(SubSeq(s, 1, Len(s) - 1)) + DigitVal(s[Len(s)])

Atoi(s) == IF s # <<>> /\ s[1] = "-" THEN -AtoiNat(Tail(s)) ELSE AtoiNat(s)

\* strings.ToLower on the texts of the model.
ToLower(t) == CASE t = "Hello" -> "hello" [] OTHER -> t

(***************************************************************************)
(* The external API as the code uses it.                                   *)
(***************************************************************************)
Reverse(s) == [i \in 1..Len(s) |-> s[Len(s) + 1 - i]]

\* messages.getHistory: up to limit messages older than off (off = 0: from
\* the most recent one), newest first.
GetHistory(hist, off, limit) ==
    LET older == SelectSeq(hist, LAMBDA e : off = 0 \/ e.id < off)
        desc  == Reverse(older)
    IN  SubSeq(desc, 1, Min(limit, Len(desc)))

HistoryOf(kinds) == [i \in 1..Len(kinds) |-> [id |-> IdBase + i, kind |-> kinds[i]]]

Services(h) == Cardinality({i \in 1..Len(h) : h[i].kind # "message"})

Histories ==
    { h \in { HistoryOf(k) : k \in UNION { [1..n -> EntryKinds] : n \in 0..MaxHist } } :
        Services(h) <= MaxService }

\* The initial histories of a run, by its flag.
HistoriesFor(flag) == IF flag THEN Histories ELSE { h \in Histories : Len(h) <= MaxHistLive }

NextID(hist) == IdBase + Len(hist) + 1

(***************************************************************************)
(* The handlers' and the sender's pure parts.                              *)
(***************************************************************************)
\* update.GetMessage().(*tg.Message) succeeds.
PlainMessage(payload) == payload = "message"

\* The peer of the message: app.go asserts msg.GetPeerID().(*tg.PeerChannel)
\* without the ok form, on a nil msg when the payload is no *tg.Message;
\* part_000 checks ok inside getChannel and returns "bad peerID".
PeerOf(b, payload) ==
    IF PlainMessage(payload) THEN "ok"
    ELSE IF b = "app.go" THEN "panic" ELSE "err"

\* getChannel on the API's answer: part_000 asserts the chat's type without
\* the ok form.
GetChannel(b, answer) ==
    CASE answer = "apiErr"     -> "err"
      [] answer = "noChats"    -> "err"
      [] answer = "notChannel" -> IF b = "app.go" THEN "err" ELSE "panic"
      [] answer = "ok"         -> "ok"

\* Variant: the handlers do not compare the chat.
IsWatchedAlways(channelID) == TRUE

\* channel.GetID() == cfg.TgApp.ChatForWatch
IsWatched(channelID) == channelID = ChatForWatch

\* Variant: the two handlers pass each other's type.
HandlerTypeSwapped(kind) ==
    CASE kind = "edit" -> "newMessage"
      [] kind = "new"  -> "editMessage"

\* The messageType each handler passes to sendMessage.
HandlerType(kind) ==
    CASE kind = "edit" -> "editMessage"
      [] kind = "new"  -> "newMessage"

BackfillType == "oldMessage"

\* The messageID the handlers and the backfill pass: msg.GetID().
HandlerID(msgID) == msgID

HandlerText(b, text) == IF b = "part_000" THEN ToLower(text) ELSE text

IdField(b) == IF b = "part_000" THEN "message_id" ELSE "external_id"

\* json.Marshal of the map sendMessage builds.
PostBody(b, text, type, id) ==
    [text |-> text, type |-> type, idField |-> IdField(b), idValue |-> Itoa(id)]

\* The exchange http.Post starts: one POST on the wire; posts counts the
\* POSTs of the call, seen holds the responses already followed, hung says
\* the endpoint never answers the request on the wire.
NewRequest(b, text, type, id, h) ==
    [state |-> "sent", body |-> PostBody(b, text, type, id), posts |-> 1,
     seen |-> <<>>, hung |-> h]

\* Variant: the POST is also repeated after a 500.
RetriesOnError(req, resp) == resp \in {"307", "500"} /\ req.posts < MaxPosts

\* http.Post follows a 307/308 by repeating the POST with its body, until
\* the client's redirect limit.
FollowsRedirect(req, resp) == resp = "307" /\ req.posts < MaxPosts

\* What sendMessage returns once http.Post has returned.
SendResult(resp) ==
    IF resp = "neterr" \/ resp = "307" THEN "err"
    ELSE IF resp # "200" THEN "err"
    ELSE "nil"

\* http.Post repeats the POST after the redirect resp.
Redirected(req, resp, h) ==
    [req EXCEPT !.posts = @ + 1, !.seen = Append(@, resp), !.hung = h]

\* The call once http.Post has returned with the endpoint's response resp.
Returned(req, resp) ==
    [state |-> "returned", body |-> req.body, posts |-> req.posts,
     seen |-> req.seen, resp |-> resp, ret |-> SendResult(resp)]

\* Variant: the backfill ends at the first failed sendMessage call.
LoopAfterSendStops(sendErr) == IF sendErr = "err" THEN "done" ELSE "entry"

\* Variant: the cursor is taken as an inclusive bound.
NextOffsetInclusive(p) == p[Len(p)].id + 1

\* Where the backfill goes after sendMessage returned sendErr: the error is
\* only logged and the range loop takes the next entry.
LoopAfterSend(sendErr) == "entry"

\* Variant: an error of the backfill ends the run.
PhaseAfterBackfillErrorFatal(ph) == "Failed"

\* The goroutine Run starts around fetchAndProcessMessages: an error is
\* logged and nothing else happens to the run.
PhaseAfterBackfillError(ph) == ph

\* Variant: the handler returns the error of sendMessage.
HandlerReturnSendErr(sendErr) == sendErr

\* What a live handler returns after sendMessage returned sendErr.
HandlerReturn(sendErr) == "nil"

\* Variant: the loop also stops on a full page.
ShortPageOrFull(p) == Len(p) <= PageSize

\* len(history.Messages) < 100
ShortPage(p) == Len(p) < PageSize

\* Variant: the cursor moves to the first entry of the page.
NextOffsetFirst(p) == p[1].id

\* Variant: the cursor is left where it started.
NextOffsetZero(p) == 0

\* history.Messages[len(history.Messages)-1].(*tg.Message).ID
NextOffset(p) == p[Len(p)].id

\* The last MessagesGetHistory call failed and ended the backfill.
PageFetchFailed ==
    bfPc = "failed" /\ fetchLog # <<>> /\ fetchLog[Len(fetchLog)].res # "ok"

\* The live updates the model delivers in one run.
LiveBudget == IF allMessages THEN MaxLiveBackfill ELSE MaxLive

Alive == phase \in {"Running", "Draining"}

(***************************************************************************)
(* Initial state: Run has built the client and registered the handlers.    *)
(***************************************************************************)
Init ==
    /\ build \in Builds
    /\ allMessages \in (IF build = "app.go" THEN BOOLEAN ELSE {FALSE})
    /\ phase = "AuthPending"
    /\ cancelled = FALSE
    /\ runErr = "none"
    /\ fault = "none"
    /\ history \in HistoriesFor(allMessages)
    /\ livePc = "idle"
    /\ cur = NoEvent
    /\ curRes = "none"
    /\ curSent = FALSE
    /\ liveFailed = FALSE
    /\ liveRet = "none"
    /\ liveCount = 0
    /\ liveReq = NoReq
    /\ bfPc = "idle"
    /\ offsetID = 0
    /\ page = <<>>
    /\ idx = 0
    /\ fetchLog = <<>>
    /\ bfEmitted = <<>>
    /\ bfErr = "none"
    /\ bfFailed = FALSE
    /\ n0 = -1
    /\ bfReq = NoReq

(***************************************************************************)
(* Run: authentication, self lookup, launch of the backfill, cancellation. *)
(***************************************************************************)
AuthOK ==
    /\ phase = "AuthPending" /\ ~cancelled
    /\ phase' = "SelfLookup"
    /\ UNCHANGED <<build, allMessages, cancelled, runErr, fault, liveVars, bfVars, history>>

AuthFail ==
    /\ phase = "AuthPending"
    /\ phase' = "Failed"
    /\ runErr' = "auth"
    /\ UNCHANGED <<build, allMessages, cancelled, fault, liveVars, bfVars, history>>

\* Variant: the goroutine is started whatever the flag says.
SelfOKAlwaysLaunches ==
    /\ phase = "SelfLookup" /\ ~cancelled
    /\ phase' = "Running"
    /\ bfPc' = "resolve"
    /\ UNCHANGED <<build, allMessages, cancelled, runErr, fault, liveVars, history,
                   offsetID, page, idx, fetchLog, bfEmitted, bfErr, bfFailed, n0, bfReq>>

\* client.Self succeeded: the goroutine is started when the flag is set,
\* then gaps.Run takes over.
SelfOK ==
    /\ phase = "SelfLookup" /\ ~cancelled
    /\ phase' = "Running"
    /\ bfPc' = IF allMessages THEN "resolve" ELSE bfPc
    /\ UNCHANGED <<build, allMessages, cancelled, runErr, fault, liveVars, history,
                   offsetID, page, idx, fetchLog, bfEmitted, bfErr, bfFailed, n0, bfReq>>

\* Variant: the error of client.Self is kept but the callback goes on.
SelfFailGoesOn ==
    /\ phase = "SelfLookup"
    /\ phase' = "Running"
    /\ runErr' = "call self"
    /\ UNCHANGED <<build, allMessages, cancelled, fault, liveVars, bfVars, history>>

\* client.Self failed: the callback returns the wrapped error.
SelfFail ==
    /\ phase = "SelfLookup"
    /\ phase' = "Failed"
    /\ runErr' = "call self"
    /\ UNCHANGED <<build, allMessages, cancelled, fault, liveVars, bfVars, history>>

\* os.Interrupt cancels ctx.
Cancel ==
    /\ phase \in {"AuthPending", "SelfLookup", "Running"} /\ ~cancelled
    /\ cancelled' = TRUE
    /\ phase' = IF phase = "Running" THEN "Draining" ELSE phase
    /\ UNCHANGED <<build, allMessages, runErr, fault, liveVars, bfVars, history>>

\* gaps.Run and client.Run return; main returns and the process exits,
\* whatever the handler and the goroutine are doing.
RunReturn ==
    /\ phase = "Draining"
    /\ phase' = "Stopped"
    /\ runErr' = "context canceled"
    /\ UNCHANGED <<build, allMessages, cancelled, fault, liveVars, bfVars, history>>

(***************************************************************************)
(* The live handlers.                                                      *)
(***************************************************************************)
\* The update dispatcher invokes the handler registered for the update.
LiveEvent ==
    /\ phase = "Running" /\ livePc = "idle" /\ liveCount < LiveBudget
    /\ \E k \in UpdateKinds, c \in Chats, p \in Payloads, t \in Texts :
         /\ (c = ChatForWatch /\ k = "edit") => Len(history) > 0
         /\ LET id == IF c # ChatForWatch THEN IdBase + 1
                      ELSE IF k = "new" THEN NextID(history)
                      ELSE history[Len(history)].id
            IN  /\ cur' = [kind |-> k, chat |-> c, payload |-> p, id |-> id, text |-> t,
                            afterAbort |-> PageFetchFailed]
                /\ history' = IF c = ChatForWatch /\ k = "new" /\ p \in EntryKinds
                              THEN Append(history, [id |-> id, kind |-> p])
                              ELSE history
    /\ livePc' = "handling"
    /\ liveCount' = liveCount + 1
    /\ UNCHANGED <<orchVars, bfVars, curRes, curSent, liveRet, liveReq, liveFailed>>

\* handleNewChannelMessage / handleEditChannelMessage up to the call of
\* sendMessage.
LiveHandle ==
    /\ Alive /\ livePc = "handling"
    /\ \E a \in (IF cancelled THEN {"apiErr"} ELSE ResolveAnswers), h \in BOOLEAN :
         LET peer == PeerOf(build, cur.payload)
             res  == IF peer # "ok" THEN peer ELSE GetChannel(build, a)
         IN  /\ curRes' = res
             /\ CASE res = "panic" ->
                      /\ phase' = "Crashed"
                      /\ fault' = "live handler"
                      /\ UNCHANGED <<livePc, liveRet, liveReq, curSent>>
                  [] res = "err" ->
                      /\ livePc' = "returned"
                      /\ liveRet' = "err"
                      /\ UNCHANGED <<phase, fault, liveReq, curSent>>
                  [] res = "ok" /\ IsWatched(cur.chat) ->
                      /\ livePc' = "posting"
                      /\ liveReq' = NewRequest(build, HandlerText(build, cur.text),
                                               HandlerType(cur.kind), HandlerID(cur.id), h)
                      /\ curSent' = TRUE
                      /\ UNCHANGED <<phase, fault, liveRet>>
                  [] res = "ok" /\ ~IsWatched(cur.chat) ->
                      /\ livePc' = "returned"
                      /\ liveRet' = "nil"
                      /\ UNCHANGED <<phase, fault, liveReq, curSent>>
    /\ UNCHANGED <<build, allMessages, cancelled, runErr, cur, liveFailed, liveCount,
                   bfVars, history>>

\* The endpoint answers the live handler's request: http.Post repeats the
\* POST on a redirect; otherwise it returns and sendMessage returns ret.
LiveRespond ==
    /\ Alive /\ livePc = "posting" /\ liveReq.state = "sent" /\ ~liveReq.hung
    /\ \E r \in Responses, h \in BOOLEAN :
         liveReq' = IF FollowsRedirect(liveReq, r)
                    THEN Redirected(liveReq, r, h)
                    ELSE Returned(liveReq, r)
    /\ UNCHANGED <<orchVars, livePc, cur, curRes, curSent, liveFailed, liveRet, liveCount,
                   bfVars, history>>

\* The rest of the handler once sendMessage has returned.
LiveAfterSend ==
    /\ Alive /\ livePc = "posting" /\ liveReq.state = "returned"
    /\ liveRet' = HandlerReturn(liveReq.ret)
    /\ liveFailed' = (liveFailed \/ liveReq.ret = "err")
    /\ liveReq' = NoReq
    /\ livePc' = "returned"
    /\ UNCHANGED <<orchVars, cur, curRes, curSent, liveCount, bfVars, history>>

\* The handler's result is back with the update dispatcher, which is ready
\* for the next update.
LiveReturn ==
    /\ Alive /\ livePc = "returned"
    /\ livePc' = "idle"
    /\ cur' = NoEvent
    /\ curRes' = "none"
    /\ curSent' = FALSE
    /\ liveRet' = "none"
    /\ UNCHANGED <<orchVars, liveFailed, liveCount, liveReq, bfVars, history>>

(***************************************************************************)
(* fetchAndProcessMessages, run in its own goroutine.                      *)
(***************************************************************************)
BfGetChannel ==
    /\ Alive /\ bfPc = "resolve"
    /\ \E a \in (IF cancelled THEN {"apiErr"} ELSE ResolveAnswers) :
         LET res == GetChannel(build, a)
         IN  CASE res = "ok" ->
                   /\ bfPc' = "fetch"
                   /\ offsetID' = 0
                   /\ UNCHANGED <<bfErr, phase, fault>>
               [] res = "err" ->
                   /\ bfPc' = "failed"
                   /\ bfErr' = a
                   /\ phase' = PhaseAfterBackfillError(phase)
                   /\ UNCHANGED <<offsetID, fault>>
               [] res = "panic" ->
                   /\ phase' = "Crashed"
                   /\ fault' = "backfill getChannel"
                   /\ UNCHANGED <<bfPc, bfErr, offsetID>>
    /\ UNCHANGED <<build, allMessages, cancelled, runErr, liveVars, history,
                   page, idx, fetchLog, bfEmitted, bfFailed, n0, bfReq>>

\* One MessagesGetHistory call and the checks on its result.
BfFetch ==
    /\ Alive /\ bfPc = "fetch"
    /\ \E a \in (IF cancelled THEN {"apiErr"} ELSE FetchAnswers) :
         LET got == IF a = "ok" THEN GetHistory(history, offsetID, PageSize) ELSE <<>>
         IN  /\ fetchLog' = Append(fetchLog, [offset |-> offsetID, res |-> a, n |-> Len(got),
                                               cancelled |-> cancelled,
                                               len |-> Len(history)])
             /\ IF a = "ok"
                THEN /\ page' = got
                     /\ idx' = 1
                     /\ bfPc' = "entry"
                     /\ n0' = IF n0 < 0 THEN Len(history) ELSE n0
                     /\ UNCHANGED bfErr
                ELSE /\ bfPc' = "failed"
                     /\ bfErr' = IF cancelled THEN "context canceled" ELSE a
                     /\ UNCHANGED <<page, idx, n0>>
             /\ phase' = IF a = "ok" THEN phase ELSE PhaseAfterBackfillError(phase)
    /\ UNCHANGED <<build, allMessages, cancelled, runErr, fault, liveVars, history,
                   offsetID, bfEmitted, bfFailed, bfReq>>

\* One iteration of the range loop: a non-message entry is skipped, a
\* message is sent.
BfEntry ==
    /\ Alive /\ bfPc = "entry" /\ idx <= Len(page)
    /\ \E h \in BOOLEAN :
         LET e == page[idx]
         IN  IF PlainMessage(e.kind)
             THEN /\ bfPc' = "posting"
                  /\ bfReq' = NewRequest(build, "old", BackfillType, HandlerID(e.id), h)
                  /\ bfEmitted' = Append(bfEmitted, [id |-> Itoa(HandlerID(e.id)), type |-> BackfillType])
                  /\ UNCHANGED idx
             ELSE /\ idx' = idx + 1
                  /\ UNCHANGED <<bfPc, bfReq, bfEmitted>>
    /\ UNCHANGED <<orchVars, liveVars, history, offsetID, page, fetchLog, bfErr, bfFailed, n0>>

BfRespond ==
    /\ Alive /\ bfPc = "posting" /\ bfReq.state = "sent" /\ ~bfReq.hung
    /\ \E r \in Responses, h \in BOOLEAN :
         bfReq' = IF FollowsRedirect(bfReq, r)
                  THEN Redirected(bfReq, r, h)
                  ELSE Returned(bfReq, r)
    /\ UNCHANGED <<orchVars, liveVars, history, bfPc, offsetID, page, idx, fetchLog,
                   bfEmitted, bfErr, bfFailed, n0>>

\* The rest of the loop body once sendMessage has returned: the error is
\* logged and the range loop goes on.
BfAfterSend ==
    /\ Alive /\ bfPc = "posting" /\ bfReq.state = "returned"
    /\ bfFailed' = (bfFailed \/ bfReq.ret = "err")
    /\ bfReq' = NoReq
    /\ bfPc' = LoopAfterSend(bfReq.ret)
    /\ idx' = idx + 1
    /\ UNCHANGED <<orchVars, liveVars, history, offsetID, page, fetchLog, bfEmitted, bfErr, n0>>

\* After the range loop: stop on a short page, else move the cursor to the
\* last entry of the page, asserted to be a *tg.Message.
BfPageEnd ==
    /\ Alive /\ bfPc = "entry" /\ idx > Len(page)
    /\ IF ShortPage(page)
       THEN /\ bfPc' = "done"
            /\ bfErr' = "nil"
            /\ UNCHANGED <<offsetID, phase, fault>>
       ELSE IF PlainMessage(page[Len(page)].kind)
            THEN /\ offsetID' = NextOffset(page)
                 /\ bfPc' = "fetch"
                 /\ UNCHANGED <<bfErr, phase, fault>>
            ELSE /\ phase' = "Crashed"
                 /\ fault' = "backfill cursor"
                 /\ UNCHANGED <<bfPc, bfErr, offsetID>>
    /\ UNCHANGED <<build, allMessages, cancelled, runErr, liveVars, history,
                   page, idx, fetchLog, bfEmitted, bfFailed, n0, bfReq>>

Next ==
    \/ AuthOK \/ AuthFail \/ SelfOK \/ SelfFail \/ Cancel \/ RunReturn
    \/ LiveEvent \/ LiveHandle \/ LiveRespond \/ LiveAfterSend \/ LiveReturn
    \/ BfGetChannel \/ BfFetch \/ BfEntry \/ BfRespond \/ BfAfterSend \/ BfPageEnd

Spec == Init /\ [][Next]_vars

\* The steps the program takes by itself once they are enabled; the endpoint
\* answers every request it does not leave hanging.
ProgramStep ==
    \/ LiveHandle \/ LiveRespond \/ LiveAfterSend \/ LiveReturn
    \/ BfGetChannel \/ BfFetch \/ BfEntry \/ BfRespond \/ BfAfterSend \/ BfPageEnd

FairSpec == Spec /\ WF_vars(ProgramStep)

(***************************************************************************)
(* Properties.                                                             *)
(***************************************************************************)
Ceil(a, b) == (a + b - 1) \div b

MessageIDs(hist) == { hist[i].id : i \in { j \in 1..Len(hist) : hist[j].kind = "message" } }

EmittedIDs == { Atoi(bfEmitted[i].id) : i \in 1..Len(bfEmitted) }

\* The history is what it was when the first page was fetched.
HistoryUnchanged == n0 = Len(history)

\* C1: a live update whose chat is not the watched chat never has a
\* sendMessage call made for it, in progress or finished.
C1_OtherChatNeverDispatched ==
    (cur # NoEvent /\ cur.chat # ChatForWatch) =>
        (~curSent /\ liveReq = NoReq /\ livePc # "posting")

C1_Witness ==
    /\ livePc = "returned" /\ cur.chat # ChatForWatch /\ PlainMessage(cur.payload)
    /\ curRes = "ok" /\ liveRet = "nil" /\ ~curSent

\* C2: every sendMessage call in progress carries the identifier of the
\* message it was made for and the type of its origin: "newMessage" for a
\* new-message update, "editMessage" for an edit update, "oldMessage" for
\* a history entry; live calls are made for plain messages of the watched
\* chat only.
C2_KindAndIdMatchOrigin ==
    /\ liveReq # NoReq =>
         /\ cur.chat = ChatForWatch /\ cur.payload = "message"
         /\ Atoi(liveReq.body.idValue) = cur.id
         /\ liveReq.body.type = (IF cur.kind = "new" THEN "newMessage" ELSE "editMessage")
    /\ bfReq # NoReq =>
         /\ page[idx].kind = "message"
         /\ Atoi(bfReq.body.idValue) = page[idx].id
         /\ bfReq.body.type = "oldMessage"
    /\ \A i \in 1..Len(bfEmitted) : bfEmitted[i].type = "oldMessage"

C2_Witness ==
    /\ liveReq # NoReq /\ cur.kind = "edit" /\ cur.id > 9
    /\ bfReq # NoReq /\ page[idx].id > 9

\* C3 as stated: a backfill run that completes over an unchanged history of
\* N entries has issued exactly ceil(N/P) page fetches.
C3_CeilFetches ==
    (bfPc = "done" /\ HistoryUnchanged) => Len(fetchLog) = Ceil(n0, PageSize)

\* C3 amended: a backfill run that completes over an unchanged history of N
\* entries has issued exactly floor(N/P) + 1 page fetches, floor(N/P) full
\* pages followed by one short, possibly empty, page.
C3_FloorPlusOneFetches ==
    (bfPc = "done" /\ HistoryUnchanged) =>
        /\ Len(fetchLog) = (n0 \div PageSize) + 1
        /\ \A i \in 1..Len(fetchLog) :
             /\ fetchLog[i].res = "ok"
             /\ fetchLog[i].n = (IF i < Len(fetchLog) THEN PageSize ELSE n0 % PageSize)

C3_Witness ==
    /\ bfPc = "done" /\ HistoryUnchanged
    /\ n0 = PageSize /\ Len(fetchLog) = 2 /\ fetchLog[2].n = 0

\* C4: a backfill run that completes over an unchanged history of N plain
\* messages has made exactly N sendMessage calls, all of type "oldMessage",
\* one for each message of the history.
C4_EachMessageOnce ==
    (bfPc = "done" /\ HistoryUnchanged /\ Services(history) = 0) =>
        /\ Len(bfEmitted) = Len(history)
        /\ EmittedIDs = MessageIDs(history)
        /\ \A i \in 1..Len(bfEmitted) : bfEmitted[i].type = "oldMessage"

C4_Witness ==
    /\ bfPc = "done" /\ HistoryUnchanged /\ Services(history) = 0
    /\ Len(history) = MaxHist /\ Len(fetchLog) >= 2

\* C5: a failed sendMessage call stops neither stream: the live handler
\* returns nil after it and a later matching update is still sent; the
\* backfill goes on to the remaining entries and pages, and never ends on
\* a delivery error.
C5_DeliveryFailureContained ==
    /\ (livePc = "returned" /\ curSent) => liveRet = "nil"
    /\ (liveFailed /\ livePc \in {"posting", "returned"} /\ cur.chat = ChatForWatch
          /\ PlainMessage(cur.payload) /\ curRes = "ok") => curSent
    /\ bfPc = "failed" => bfErr \in {"apiErr", "noChats", "notChannel", "badType", "context canceled"}
    /\ (bfFailed /\ bfPc = "done" /\ HistoryUnchanged) => EmittedIDs = MessageIDs(history)

C5_Witness ==
    /\ liveFailed /\ livePc = "posting" /\ liveCount = 2

\* The backfill case of C5: a run that completed although a call failed.
C5_WitnessBackfill ==
    /\ bfFailed /\ bfPc = "done" /\ HistoryUnchanged /\ Len(fetchLog) >= 2
    /\ Len(bfEmitted) >= 3

\* C6 as stated: a live update whose payload is no plain message is
\* skipped: nothing is sent for it, the handler returns no error and the
\* process does not crash in the handler.
C6_NonMessageSkipped ==
    (cur # NoEvent /\ ~PlainMessage(cur.payload)) =>
        (~curSent /\ liveRet # "err" /\ fault # "live handler")

\* C7: a failed page fetch ends the backfill with the error kept, for good
\* (no further fetch, no further "oldMessage" call, the cursor untouched),
\* and the failing step changes nothing of the run or of the live handler:
\* the phase stays what it was, updates are still accepted and a matching
\* update that arrives afterwards is still sent.
C7_FetchFailureAbortsOnlyBackfill ==
    /\ [](PageFetchFailed =>
            /\ bfErr \notin {"none", "nil"} /\ bfReq = NoReq
            /\ (phase = "Running" /\ livePc = "idle" /\ liveCount < LiveBudget) => ENABLED LiveEvent
            /\ (cur # NoEvent /\ cur.afterAbort /\ livePc \in {"posting", "returned"}
                  /\ cur.chat = ChatForWatch /\ PlainMessage(cur.payload) /\ curRes = "ok")
                 => curSent)
    /\ [][/\ PageFetchFailed =>
               (PageFetchFailed' /\ fetchLog' = fetchLog /\ bfEmitted' = bfEmitted
                  /\ offsetID' = offsetID /\ bfErr' = bfErr)
          /\ (~PageFetchFailed /\ PageFetchFailed') =>
               (phase' = phase /\ fault' = fault /\ runErr' = runErr /\ liveVars' = liveVars)]_vars

C7_Witness ==
    /\ PageFetchFailed /\ ~cancelled /\ phase = "Running" /\ Len(bfEmitted) >= PageSize
    /\ cur # NoEvent /\ cur.afterAbort /\ livePc = "posting"

\* C8 as stated: after cancellation the backfill issues no further page
\* fetch and does not end with an error.
C8_CancelledBackfillExitsNil ==
    /\ \A i \in 1..Len(fetchLog) : ~fetchLog[i].cancelled
    /\ bfPc = "failed" => bfErr # "context canceled"

\* C9 as stated: every sendMessage call in progress eventually returns to
\* its caller, unless the process ends first.
C9_DeliveryReturns ==
    /\ (liveReq.state = "sent") ~> (liveReq.state # "sent" \/ ~Alive)
    /\ (bfReq.state = "sent") ~> (bfReq.state # "sent" \/ ~Alive)

SendCalls == {liveReq, bfReq}

C11_EveryMatchingEventSentInOrder ==
    /\ (livePc = "returned" /\ cur.chat = ChatForWatch /\ PlainMessage(cur.payload)) => curSent
    /\ liveReq # NoReq =>
         (livePc = "posting" /\ curSent /\ Atoi(liveReq.body.idValue) = cur.id)

\* A getChannel call of this run has already succeeded: a live call was
\* sent, or the backfill went past its own getChannel.
ResolvedBefore ==
    liveFailed \/ bfPc \in {"fetch", "entry", "posting", "done"} \/ PageFetchFailed

\* C12 as stated: once a getChannel call has succeeded, the handler of a
\* further live update issues no getChannel call.
C12_ResolvedOnce ==
    [][(ResolvedBefore /\ livePc = "handling" /\ PlainMessage(cur.payload))
          => curRes' = curRes]_vars

\* C13 as stated: once Run has returned after cancellation the backfill
\* has terminated: it is not between two steps of its loop and has no
\* sendMessage call in progress.
C13_StoppedMeansBackfillTerminated ==
    phase = "Stopped" => (bfPc \in {"idle", "done", "failed"} /\ bfReq = NoReq)

\* Nothing of the live source or of the backfill has started.
NothingStarted ==
    /\ bfPc = "idle" /\ fetchLog = <<>> /\ bfEmitted = <<>> /\ bfReq = NoReq
    /\ livePc = "idle" /\ liveCount = 0 /\ liveReq = NoReq /\ ~curSent

\* C14: until authentication and the self lookup have both succeeded, and
\* for good when one of them failed, nothing has started: no update is
\* handled, the backfill is not launched, no page is fetched and no
\* sendMessage call is made; a failure of either ends the run as Failed
\* with its error, and a run that is Running carries no error.
C14_RunningOnlyAfterAuthAndSelf ==
    /\ phase \in {"AuthPending", "SelfLookup", "Failed"} => NothingStarted
    /\ phase = "Failed" <=> runErr \in {"auth", "call self"}
    /\ phase \in {"Running", "Draining"} => runErr = "none"

C14_Witness ==
    /\ phase = "Failed" /\ runErr = "call self" /\ allMessages /\ Len(history) = MaxHist
    /\ ~cancelled

\* C15: with the flag absent the backfill is never launched, no page is
\* fetched and no "oldMessage" call is made; with the flag set the backfill
\* is launched exactly once, by the step that enters Running, and it runs
\* while the live handlers run.
C15_BackfillOnlyWithFlag ==
    /\ [](~allMessages =>
            /\ bfPc = "idle" /\ fetchLog = <<>> /\ bfEmitted = <<>> /\ bfReq = NoReq
            /\ liveReq # NoReq => liveReq.body.type # BackfillType)
    /\ []((allMessages /\ phase \in {"Running", "Draining", "Stopped", "Crashed"})
            => bfPc # "idle")
    /\ [][bfPc' = "resolve" =>
            (bfPc = "resolve" \/ (bfPc = "idle" /\ phase = "SelfLookup" /\ phase' = "Running"))]_vars

C15_Witness ==
    /\ allMessages /\ bfPc = "posting" /\ bfReq.state = "sent"
    /\ livePc = "posting" /\ liveReq.state = "sent"

\* C16 as stated: no page request uses an offsetID greater than the
\* offsetID of an earlier request of the run.
C16_OffsetsNeverIncrease ==
    \A i, j \in 1..Len(fetchLog) : i < j => fetchLog[j].offset <= fetchLog[i].offset

\* C16 amended: the first page request uses offsetID 0, every later one a
\* positive identifier, and from the second request on the offsetIDs are
\* strictly decreasing; the cursor is 0 until the first page has been
\* worked through and changes only after the range loop, to the
\* identifier of the last entry of the page just processed.
C16_OffsetsDecreaseAfterFirst ==
    /\ fetchLog # <<>> => fetchLog[1].offset = 0
    /\ \A i \in 2..Len(fetchLog) : fetchLog[i].offset > 0
    /\ \A i, j \in 2..Len(fetchLog) : i < j => fetchLog[j].offset < fetchLog[i].offset
    /\ fetchLog = <<>> => offsetID = 0
    /\ (fetchLog # <<>> /\ bfPc # "fetch") => offsetID = fetchLog[Len(fetchLog)].offset
    /\ (fetchLog # <<>> /\ bfPc = "fetch") => offsetID = page[Len(page)].id

C16_Witness ==
    /\ Len(fetchLog) = 3 /\ fetchLog[2].offset > fetchLog[3].offset
    /\ fetchLog[3].offset > 0 /\ bfPc = "done"

\* getChannel failed for the live update being handled.
LiveResolutionFailed ==
    livePc = "returned" /\ curRes = "err" /\ PlainMessage(cur.payload)

\* C17 as stated: a failed getChannel call ends the path that made it with
\* nothing sent: the backfill ends before any page fetch, and after a live
\* handler's failure the run ends instead of taking the next update.
C17_ResolutionFailureEndsPath ==
    /\ []((bfPc = "failed" /\ bfErr \in {"apiErr", "noChats", "notChannel"} /\ fetchLog = <<>>)
            => (bfEmitted = <<>> /\ bfReq = NoReq))
    /\ [](LiveResolutionFailed => (~curSent /\ liveReq = NoReq /\ liveRet = "err"))
    /\ [][LiveResolutionFailed => livePc' # "idle"]_vars

\* The identifiers of the plain messages of hist, newest first.
NewestFirstIDs(hist) ==
    LET msgs == Reverse(SelectSeq(hist, LAMBDA e : e.kind = "message"))
    IN  [i \in 1..Len(msgs) |-> msgs[i].id]

\* The offsetID of the k-th page request over the unchanged history hist.
ExpectedOffset(hist, k) == IF k = 1 THEN 0 ELSE Reverse(hist)[(k - 1) * PageSize].id

\* C18: over an unchanged history the page requests and the "oldMessage"
\* calls of a backfill run are functions of the history alone, whatever the
\* endpoint answers: the k-th request uses the offsetID the history
\* prescribes, the calls made so far are the plain messages newest first,
\* and a run that completes has made all of them, in floor(N/P) + 1
\* requests. Two runs over the same history therefore agree.
C18_BackfillDeterminedByHistory ==
    (n0 >= 0 /\ HistoryUnchanged) =>
        LET ids == NewestFirstIDs(history)
        IN  /\ \A k \in 1..Len(fetchLog) : fetchLog[k].offset = ExpectedOffset(history, k)
            /\ Len(bfEmitted) <= Len(ids)
            /\ \A i \in 1..Len(bfEmitted) : Atoi(bfEmitted[i].id) = ids[i]
            /\ bfPc = "done" =>
                 /\ Len(bfEmitted) = Len(ids)
                 /\ Len(fetchLog) = (n0 \div PageSize) + 1

C18_Witness ==
    /\ bfPc = "done" /\ HistoryUnchanged /\ bfFailed /\ Services(history) = 1
    /\ Len(fetchLog) = 2 /\ Len(bfEmitted) = 2 /\ fetchLog[2].offset > 0

\* C19 as stated: a non-message entry is skipped wherever it stands in a
\* page, the last place of a full page included: nothing is sent for it,
\* the backfill does not crash on it, and the cursor moves on to an older
\* identifier.
C19_ServiceEntrySkippedAnywhere ==
    /\ fault # "backfill cursor"
    /\ EmittedIDs \subseteq MessageIDs(history)
    /\ (bfPc = "fetch" /\ fetchLog # <<>>) => offsetID < fetchLog[Len(fetchLog)].offset
                                                 \/ fetchLog[Len(fetchLog)].offset = 0

\* The plain messages that existed when the first page was fetched.
MessagesAtStart == MessageIDs(SubSeq(history, 1, n0))

\* C20: whatever is appended to the chat while the backfill runs, the run
\* makes no "oldMessage" call twice and none for a message appended after
\* its first page fetch, and a run that completes has made one call for
\* each plain message that existed at that fetch.
C20_AppendsDuringBackfill ==
    n0 >= 0 =>
        LET sent == EmittedIDs
        IN  /\ sent \subseteq MessagesAtStart
            /\ Cardinality(sent) = Len(bfEmitted)
            /\ bfPc = "done" => sent = MessagesAtStart

\* A plain message was appended between the first and the second page
\* fetch of a run that completed.
C20_Witness ==
    /\ bfPc = "done" /\ Len(fetchLog) = 2 /\ n0 = MaxHist
    /\ fetchLog[1].len = n0 /\ fetchLog[2].len = n0 + 1
    /\ history[n0 + 1].kind = "message"
    /\ Len(bfEmitted) = Cardinality(MessagesAtStart) /\ Len(bfEmitted) >= PageSize
====
